---------------------------- MODULE Spec2Model ----------------------------
(***************************************************************************)
(* A model of the URL tokenizer and domain resolver of src/url.py.         *)
(*                                                                         *)
(* Text is a sequence of one-character strings, so that splitting, joining *)
(* and searching work on characters as the Python code does.  Python's     *)
(* None is the sentinel None below, which no text can equal (its single    *)
(* element is not one character).  An operation that ends in an unhandled  *)
(* Python exception returns a record whose field exc names the exception.  *)
(***************************************************************************)
EXTENDS Integers, Sequences, FiniteSets, TLC

VARIABLES
    pc,     \* "idle", or the operation that has been applied to call
    call,   \* the arguments of the call: url, puny, url_encoding, www_ignore
    psl,    \* Url.public_suffix_list, a sorted sequence of suffix texts
    ret     \* what the operation returned (or the exception it ended in)

vars == <<pc, call, psl, ret>>

---------------------------------------------------------------------------
(* Python values *)

None == <<"None">>
NoneList == <<None>>
NonePairs == << <<None, None>> >>

PyTrue == "True"
PyFalse == "False"
PyNone == "None"
Modes == {PyNone, PyTrue, PyFalse}

---------------------------------------------------------------------------
(* Characters: printable ASCII, in code order from 32 to 126.  The grave   *)
(* accent (code 96) cannot be written in a string here and is "grave".     *)

Ascii ==
    <<" ", "!", "\"", "#", "$", "%", "&", "'", "(", ")", "*", "+", ",", "-", ".", "/",
      "0", "1", "2", "3", "4", "5", "6", "7", "8", "9", ":", ";", "<", "=", ">", "?",
      "@", "A", "B", "C", "D", "E", "F", "G", "H", "I", "J", "K", "L", "M", "N", "O",
      "P", "Q", "R", "S", "T", "U", "V", "W", "X", "Y", "Z", "[", "\\", "]", "^", "_",
      "grave", "a", "b", "c", "d", "e", "f", "g", "h", "i", "j", "k", "l", "m", "n", "o",
      "p", "q", "r", "s", "t", "u", "v", "w", "x", "y", "z", "{", "|", "}", "~">>

AsciiDigits == {"0", "1", "2", "3", "4", "5", "6", "7", "8", "9"}
AsciiUpper ==
    {"A", "B", "C", "D", "E", "F", "G", "H", "I", "J", "K", "L", "M",
     "N", "O", "P", "Q", "R", "S", "T", "U", "V", "W", "X", "Y", "Z"}
AsciiLower ==
    {"a", "b", "c", "d", "e", "f", "g", "h", "i", "j", "k", "l", "m",
     "n", "o", "p", "q", "r", "s", "t", "u", "v", "w", "x", "y", "z"}
AsciiLetters == AsciiUpper \cup AsciiLower

\* ord(c) and chr(n)
Ord(c) == 31 + CHOOSE i \in DOMAIN Ascii : Ascii[i] = c

Chr(n) == Ascii[n - 31]

IsDigit(c) == c \in AsciiDigits
IsUpper(c) == c \in AsciiUpper
IsLower(c) == c \in AsciiLower
IsAlpha(c) == c \in AsciiLetters

LowerChar(c) == IF IsUpper(c) THEN Chr(Ord(c) + 32) ELSE c

Lower(s) == [i \in 1..Len(s) |-> LowerChar(s[i])]

---------------------------------------------------------------------------
(* Python str operations *)

Chars(s) == {s[i] : i \in 1..Len(s)}

Last(s) == s[Len(s)]

DropFirst(s, n) == SubSeq(s, n + 1, Len(s))

StartsWith(s, p) == Len(p) <= Len(s) /\ SubSeq(s, 1, Len(p)) = p

\* str.find: the first position (from 1) where sub starts in s at or after
\* position from, 0 when there is none
FindFrom(s, sub, from) ==
    LET hits == {i \in from..(Len(s) - Len(sub) + 1) : SubSeq(s, i, i + Len(sub) - 1) = sub}
    IN  IF hits = {} THEN 0 ELSE CHOOSE i \in hits : \A j \in hits : i <= j

Find(s, sub) == FindFrom(s, sub, 1)

Contains(s, sub) == Find(s, sub) > 0

\* str.split(sep) for a non-empty separator
RECURSIVE Split(_, _)
Split(s, sep) ==
    LET i == Find(s, sep)
    IN  IF i = 0 THEN <<s>>
        ELSE <<SubSeq(s, 1, i - 1)>> \o Split(DropFirst(s, i + Len(sep) - 1), sep)

\* str.split(sep, 1)
Split1(s, sep) ==
    LET i == Find(s, sep)
    IN  IF i = 0 THEN <<s>>
        ELSE <<SubSeq(s, 1, i - 1), DropFirst(s, i + Len(sep) - 1)>>

\* str.split(None): the runs of non-whitespace characters
RECURSIVE SplitWhitespace(_)
SplitWhitespace(s) ==
    IF s = <<>> THEN <<>>
    ELSE IF Head(s) = " " THEN SplitWhitespace(Tail(s))
    ELSE LET i == Find(s, <<" ">>)
         IN  IF i = 0 THEN <<s>>
             ELSE <<SubSeq(s, 1, i - 1)>> \o SplitWhitespace(DropFirst(s, i))

\* sep.join(list)
RECURSIVE Join(_, _)
Join(list, sep) ==
    IF list = <<>> THEN <<>>
    ELSE IF Len(list) = 1 THEN list[1]
    ELSE list[1] \o sep \o Join(Tail(list), sep)

\* str.lstrip and str.rstrip of spaces
LStrip(s) ==
    LET kept == {i \in 1..Len(s) : s[i] # " "}
    IN  IF kept = {} THEN <<>>
        ELSE SubSeq(s, CHOOSE i \in kept : \A j \in kept : i <= j, Len(s))

RStrip(s) ==
    LET kept == {i \in 1..Len(s) : s[i] # " "}
    IN  IF kept = {} THEN <<>>
        ELSE SubSeq(s, 1, CHOOSE i \in kept : \A j \in kept : i >= j)

Strip(s) == RStrip(LStrip(s))

\* s * n
Rep(s, n) == [i \in 1..(n * Len(s)) |-> s[((i - 1) % Len(s)) + 1]]

---------------------------------------------------------------------------
(* urllib.parse, as url.py uses it *)

HexDigits == <<"0", "1", "2", "3", "4", "5", "6", "7", "8", "9", "A", "B", "C", "D", "E", "F">>

IsHex(c) == c \in AsciiDigits \cup {"A", "B", "C", "D", "E", "F", "a", "b", "c", "d", "e", "f"}

HexVal(c) == Ord(c) - (IF IsDigit(c) THEN 48 ELSE IF IsUpper(c) THEN 55 ELSE 87)

AlwaysSafe(c) == IsAlpha(c) \/ IsDigit(c) \/ c \in {"_", ".", "-", "~"}

\* % and the two upper-case hexadecimal digits of the code of c
Quoted(c) == <<"%", HexDigits[(Ord(c) \div 16) + 1], HexDigits[(Ord(c) % 16) + 1]>>

\* urllib.parse.quote(txt, safe): every character that is neither always safe
\* nor in safe becomes % and its two upper-case hexadecimal digits
RECURSIVE _get_url_encoding(_, _)
_get_url_encoding(txt, safe) ==
    IF txt = <<>> THEN <<>>
    ELSE (IF AlwaysSafe(Head(txt)) \/ Head(txt) \in Chars(safe)
          THEN <<Head(txt)>> ELSE Quoted(Head(txt)))
         \o _get_url_encoding(Tail(txt), safe)

\* urllib.parse.unquote(txt): % followed by two hexadecimal digits becomes the
\* character of that code; any other % stays.  (Codes outside 32..126 are not
\* modelled: Chr is undefined there.)
RECURSIVE _get_url_decoding(_)
_get_url_decoding(txt) ==
    IF txt = <<>> THEN <<>>
    ELSE IF Head(txt) = "%" /\ Len(txt) >= 3 /\ IsHex(txt[2]) /\ IsHex(txt[3])
         THEN <<Chr(16 * HexVal(txt[2]) + HexVal(txt[3]))>> \o _get_url_decoding(DropFirst(txt, 3))
         ELSE <<Head(txt)>> \o _get_url_decoding(Tail(txt))

PlusToSpace(s) == [i \in 1..Len(s) |-> IF s[i] = "+" THEN " " ELSE s[i]]

\* the pair of one item of the query split at its first '=': none for an item
\* without '=' or with an empty value
QslPair(nv) ==
    IF Len(nv) = 2 /\ Len(nv[2]) > 0
    THEN << <<_get_url_decoding(PlusToSpace(nv[1])), _get_url_decoding(PlusToSpace(nv[2]))>> >>
    ELSE <<>>

\* urllib.parse.parse_qsl(qs) with its defaults (keep_blank_values=False,
\* strict_parsing=False, separator='&')
RECURSIVE parse_qsl_items(_)
parse_qsl_items(items) ==
    IF items = <<>> THEN <<>>
    ELSE QslPair(Split1(Head(items), <<"=">>)) \o parse_qsl_items(Tail(items))

parse_qsl(qs) == IF qs = <<>> THEN <<>> ELSE parse_qsl_items(Split(qs, <<"&">>))

scheme_chars == AsciiLetters \cup AsciiDigits \cup {"+", "-", "."}

\* the length of the scheme of url (a letter, then scheme_chars up to the
\* first ':'), 0 when it has none
SchemeLen(url) ==
    LET i == Find(url, <<":">>)
    IN  IF i > 1 /\ IsAlpha(url[1]) /\ (\A k \in 1..(i - 1) : url[k] \in scheme_chars)
        THEN i - 1 ELSE 0

\* _splitnetloc(url, 2): the text after the leading // up to the first of / ? #
_splitnetloc(url) ==
    LET found == {FindFrom(url, <<c>>, 3) : c \in {"/", "?", "#"}} \ {0}
        delim == IF found = {} THEN Len(url) + 1
                 ELSE CHOOSE d \in found : \A e \in found : d <= e
    IN  <<SubSeq(url, 3, delim - 1), SubSeq(url, delim, Len(url))>>

\* the rest of urlsplit once scheme and netloc are known: fragment from '#',
\* query from '?'.  A netloc with both brackets is checked as an IP literal
\* by the library; that case is left out (the CASE has no arm for it).
SplitRest(scheme, netloc, fr) ==
    LET qs == Split1(fr[1], <<"?">>)
        open == "[" \in Chars(netloc)
        close == "]" \in Chars(netloc)
    IN  CASE (open /\ ~close) \/ (close /\ ~open) ->
                [exc |-> "ValueError", scheme |-> <<>>, netloc |-> <<>>, path |-> <<>>,
                 query |-> <<>>, fragment |-> <<>>]
          [] ~open /\ ~close ->
                [exc |-> "ok", scheme |-> scheme, netloc |-> netloc, path |-> qs[1],
                 query |-> IF Len(qs) = 2 THEN qs[2] ELSE <<>>,
                 fragment |-> IF Len(fr) = 2 THEN fr[2] ELSE <<>>]

\* urlsplit after the scheme (of n characters, 0 for none) was found
SplitNetloc(url1, n) ==
    LET scheme == IF n > 0 THEN Lower(SubSeq(url1, 1, n)) ELSE <<>>
        url2 == IF n > 0 THEN DropFirst(url1, n + 1) ELSE url1
    IN  IF StartsWith(url2, <<"/", "/">>)
        THEN SplitRest(scheme, _splitnetloc(url2)[1], Split1(_splitnetloc(url2)[2], <<"#">>))
        ELSE SplitRest(scheme, <<>>, Split1(url2, <<"#">>))

\* urllib.parse.urlsplit(url): [exc, scheme, netloc, path, query, fragment]
urlsplit(url0) == SplitNetloc(LStrip(url0), SchemeLen(LStrip(url0)))

---------------------------------------------------------------------------
(* The idna codec, as url.py uses it (idna.encode(txt, uts46=True) and     *)
(* idna.decode(txt)), on ASCII text.  Labels that start with xn-- need the *)
(* Punycode decoder and are left out (the CASE has no arm for them).       *)

PValid(c) == IsLower(c) \/ IsDigit(c) \/ c = "-"

\* idna's checks of one label, in the library's order: "ok" or the exception
check_label(label) ==
    CASE ~StartsWith(label, <<"x", "n", "-", "-">>) ->
        IF label = <<>> THEN "IDNAError"
        ELSE IF (Len(label) >= 4 /\ SubSeq(label, 3, 4) = <<"-", "-">>)
                \/ Head(label) = "-" \/ Last(label) = "-" THEN "IDNAError"
        ELSE IF \E k \in 1..Len(label) : ~PValid(label[k]) THEN "InvalidCodepoint"
        ELSE "ok"

\* the exception of the first label that has one, "ok" when none has
RECURSIVE LabelsExc(_, _)
LabelsExc(labels, maxLen) ==
    IF labels = <<>> THEN "ok"
    ELSE LET e == check_label(Head(labels))
         IN  IF e # "ok" THEN e
             ELSE IF Len(Head(labels)) > maxLen THEN "IDNAError"
             ELSE LabelsExc(Tail(labels), maxLen)

\* the labels the codec checks: a trailing empty label is dropped
CheckedLabels(labels0) ==
    IF Last(labels0) = <<>> THEN SubSeq(labels0, 1, Len(labels0) - 1) ELSE labels0

\* idna.encode of the lower-cased text s with labels labels0: [exc, val]
EncodeLabels(s, labels0) ==
    LET e == IF labels0 = << <<>> >> THEN "IDNAError"
             ELSE LabelsExc(CheckedLabels(labels0), 63)
    IN  IF e # "ok" THEN [exc |-> e, val |-> None]
        ELSE IF Len(s) > (IF Last(labels0) = <<>> THEN 254 ELSE 253)
        THEN [exc |-> "IDNAError", val |-> None]
        ELSE [exc |-> "ok", val |-> s]

\* _encode_puny(txt): [exc, val]
_encode_puny(txt) == EncodeLabels(Lower(txt), Split(Lower(txt), <<".">>))

\* idna.decode of the lower-cased text s with labels labels0: [exc, val]
\* (decoding checks no length)
DecodeLabels(s, labels0) ==
    LET e == IF labels0 = << <<>> >> THEN "IDNAError"
             ELSE LabelsExc(CheckedLabels(labels0), Len(s))
    IN  IF e # "ok" THEN [exc |-> e, val |-> None] ELSE [exc |-> "ok", val |-> s]

\* _decode_puny(txt): [exc, val]
_decode_puny(txt) == DecodeLabels(Lower(txt), Split(Lower(txt), <<".">>))

---------------------------------------------------------------------------
(* _parse_url.  The Python list tokens is a sequence here, so tokens[k] of *)
(* the code is tokens[k + 1].  Each step takes and returns the record      *)
(* [exc, tokens, port, ip, warned]; a step after an exception does nothing.*)

MaxAuthorityLen == 255
MaxLabelLen == 63

Raised(e) == [exc |-> e, tokens |-> <<>>, port |-> None, ip |-> None, warned |-> FALSE]

AllNone == <<None, None, None, None, None, None>>

\* the tokens of a split, exc when the split raised
SplitTokens(scheme, s) ==
    IF s.exc # "ok" THEN Raised(s.exc)
    ELSE [exc |-> "ok", tokens |-> <<scheme, s.netloc, s.path, s.query, s.fragment>>,
          port |-> None, ip |-> None, warned |-> FALSE]

\* fix1: without a scheme, the tokens are those of b, the split of
\* 'http://' + url, and the scheme is None
WithScheme(a, b) ==
    IF a.exc # "ok" THEN Raised(a.exc)
    ELSE IF a.scheme = <<>> THEN SplitTokens(None, b)
    ELSE SplitTokens(a.scheme, a)

\* tokens = urlsplit(url), and fix1
SplitStep(url) == WithScheme(urlsplit(url), urlsplit(<<"h", "t", "t", "p", ":", "/", "/">> \o url))

\* the test without its first condition: an authority with a space passes
NotAUrl_NoSpace(netloc) ==
    \/ "." \notin Chars(netloc)
    \/ Len(netloc) > MaxAuthorityLen

\* "test if url is a url" (the argument is text, so type(url) != str is false)
NotAUrl(netloc) ==
    \/ " " \in Chars(netloc)
    \/ "." \notin Chars(netloc)
    \/ Len(netloc) > MaxAuthorityLen

\* domain_tokens = '.'.split(tokens[1])
DomainTokens(t1) ==
    IF t1 = None THEN SplitWhitespace(<<".">>) ELSE Split(<<".">>, t1)

LabelTooLong(domain_tokens) ==
    \E k \in 1..Len(domain_tokens) : Len(domain_tokens[k]) > MaxLabelLen

\* the loop over domain_tokens, t being the tokens after the first test and
\* bad1 its outcome; '.'.split('') raises ValueError (empty separator)
LabelStep(st, t, bad1) ==
    IF t[2] = <<>> THEN Raised("ValueError")
    ELSE [st EXCEPT !.tokens = IF LabelTooLong(DomainTokens(t[2])) THEN AllNone ELSE t,
                    !.warned = bad1 \/ LabelTooLong(DomainTokens(t[2]))]

ValidateStep(st) ==
    IF st.exc # "ok" THEN st
    ELSE LabelStep(st, IF NotAUrl(st.tokens[2]) THEN AllNone ELSE st.tokens,
                   NotAUrl(st.tokens[2]))

\* fix2: replace empty strings with None
EmptyToNoneStep(st) ==
    IF st.exc # "ok" THEN st
    ELSE [st EXCEPT !.tokens = [k \in 1..Len(st.tokens) |->
                                   IF k <= 5 /\ st.tokens[k] = <<>> THEN None ELSE st.tokens[k]]]

\* one of the two identical blocks of fix3
TrailingDot(st) ==
    IF st.exc # "ok" THEN st
    ELSE IF st.tokens[2] = <<>> THEN Raised("IndexError")
    ELSE IF Last(st.tokens[2]) # "." THEN st
    ELSE IF st.tokens[3] = None THEN Raised("TypeError")
    ELSE [st EXCEPT !.tokens[2] = SubSeq(st.tokens[2], 1, Len(st.tokens[2]) - 1),
                    !.tokens[3] = <<".">> \o st.tokens[3]]

\* fix3: special case: path starts with . or ..
TrailingDotsStep(st) ==
    IF st.exc # "ok" \/ st.tokens[2] = None THEN st
    ELSE TrailingDot(TrailingDot(st))

\* fix4: port number shows up in fqdn
PortStep(st) ==
    IF st.exc # "ok" \/ st.tokens[2] = None THEN st
    ELSE IF ":" \in Chars(st.tokens[2])
         THEN [st EXCEPT !.tokens[2] = Split(st.tokens[2], <<":">>)[1],
                         !.port = Split(st.tokens[2], <<":">>)[2]]
         ELSE st

\* fix5 without "tokens[1] = None": the ip is set and the host is kept
IpStep_KeepHost(st) ==
    IF st.exc # "ok" \/ st.tokens[2] = None THEN st
    ELSE IF st.tokens[2] = <<>> THEN Raised("IndexError")
    ELSE IF Ord(Last(st.tokens[2])) <= 57 /\ Ord(Last(st.tokens[2])) >= 48
         THEN [st EXCEPT !.ip = st.tokens[2]]
         ELSE st

\* fix5: special case: ip address
IpStep(st) ==
    IF st.exc # "ok" \/ st.tokens[2] = None THEN st
    ELSE IF st.tokens[2] = <<>> THEN Raised("IndexError")
    ELSE IF Ord(Last(st.tokens[2])) <= 57 /\ Ord(Last(st.tokens[2])) >= 48
         THEN [st EXCEPT !.ip = st.tokens[2], !.tokens[2] = None]
         ELSE st

\* the except clause clearing the host alone: port and the other tokens stay
EncodeHost_HostOnly(st, r) ==
    IF r.exc = "InvalidCodepoint" THEN [st EXCEPT !.tokens[2] = None]
    ELSE IF r.exc # "ok" THEN Raised(r.exc)
    ELSE [st EXCEPT !.tokens[2] = r.val]

\* puny True: tokens[1] = _encode_puny(tokens[1]), r being what the encoder
\* gives; idna.InvalidCodepoint is caught, "given Url was not a Url"
EncodeHost(st, r) ==
    IF r.exc = "InvalidCodepoint" THEN [st EXCEPT !.tokens = AllNone, !.ip = None, !.port = None]
    ELSE IF r.exc # "ok" THEN Raised(r.exc)
    ELSE [st EXCEPT !.tokens[2] = r.val]

\* puny False: tokens[1] = _decode_puny(tokens[1]), r being what the decoder
\* gives
DecodeHost(st, r) ==
    IF r.exc # "ok" THEN Raised(r.exc) ELSE [st EXCEPT !.tokens[2] = r.val]

\* "Making sure the domain is in ascii code"
PunyStep(st, puny) ==
    IF st.exc # "ok" \/ st.tokens[2] = None THEN st
    ELSE IF puny = PyTrue THEN EncodeHost(st, _encode_puny(st.tokens[2]))
    ELSE IF puny = PyFalse THEN DecodeHost(st, _decode_puny(st.tokens[2]))
    ELSE st

\* _get_query_tokens without the test for '=' in the query
_get_query_tokens_NoEquals(query) ==
    IF query # None THEN parse_qsl(query) ELSE NonePairs

\* _get_query_tokens(query)
_get_query_tokens(query) ==
    IF query # None /\ "=" \in Chars(query) THEN parse_qsl(query) ELSE NonePairs

allowed_characters == <<"$", "-", "_", ".", "+", "!", "*", "'", "(", ")">>

Recode(txt, url_encoding, safe) ==
    IF txt = None THEN None
    ELSE IF url_encoding = PyFalse THEN _get_url_decoding(txt)
    ELSE IF url_encoding = PyTrue THEN _get_url_encoding(txt, safe)
    ELSE txt

RecodePairs(pairs, url_encoding) ==
    IF pairs = NonePairs \/ url_encoding = PyNone THEN pairs
    ELSE [k \in 1..Len(pairs) |-> <<Recode(pairs[k][1], url_encoding, <<>>),
                                    Recode(pairs[k][2], url_encoding, <<>>)>>]

\* query_tokens, and the url decoding or encoding of path, query and fragment
EncodingStep(st, url_encoding) ==
    IF st.exc # "ok"
    THEN [exc |-> st.exc, tokens |-> <<>>, ip |-> None, port |-> None,
          query_tokens |-> NonePairs, warned |-> FALSE]
    ELSE LET t == st.tokens
             t3 == Recode(t[3], url_encoding, allowed_characters \o <<"/", ":">>)
             t4 == Recode(t[4], url_encoding, allowed_characters \o <<"&", "/", ";", ":">>)
             t5 == Recode(t[5], url_encoding, allowed_characters \o <<"#", "&", "/", ";", ":">>)
         IN  [exc |-> "ok",
              tokens |-> [t EXCEPT ![3] = t3, ![4] = t4, ![5] = t5],
              ip |-> st.ip, port |-> st.port,
              query_tokens |-> RecodePairs(_get_query_tokens(t[4]), url_encoding),
              warned |-> st.warned]

\* _parse_url(url, puny, url_encoding):
\* [exc, tokens, ip, port, query_tokens, warned]
_parse_url(url, puny, url_encoding) ==
    EncodingStep(
        PunyStep(IpStep(PortStep(TrailingDotsStep(EmptyToNoneStep(ValidateStep(SplitStep(url)))))),
                 puny),
        url_encoding)

---------------------------------------------------------------------------
(* Url.__init__ *)

\* x in Url.public_suffix_list
InList(x, list) == \E k \in 1..Len(list) : list[k] = x

\* the loop running on after a match: the last i in i..len-1 (counted from 0)
\* whose '.'.join(fqdn_tokens[i:]) is in the list, len when none is
LastSplit(fqdn_tokens, list, i) ==
    LET n == Len(fqdn_tokens)
        M == {j \in i..(n - 1) : InList(Join(SubSeq(fqdn_tokens, j + 1, n), <<".">>), list)}
    IN  IF M = {} THEN (IF i >= n THEN i ELSE n)
        ELSE CHOOSE j \in M : \A k \in M : k <= j

\* the while loop of "mld,tld": the first i in 1..len-1 (counted from 0 as in
\* the code) whose '.'.join(fqdn_tokens[i:]) is in the list, len when none is
RECURSIVE FirstSplit(_, _, _)
FirstSplit(fqdn_tokens, list, i) ==
    IF i >= Len(fqdn_tokens) THEN i
    ELSE IF InList(Join(SubSeq(fqdn_tokens, i + 1, Len(fqdn_tokens)), <<".">>), list) THEN i
    ELSE FirstSplit(fqdn_tokens, list, i + 1)

\* Python's list[k] for k >= -len: a negative index counts from the end
PyIndex(list, k) == IF k >= 0 THEN list[k + 1] ELSE list[Len(list) + k + 1]

\* mld, tld and tld_tokens once the loop has ended with i
SplitAt(fqdn_tokens, i) ==
    IF i < Len(fqdn_tokens)
    THEN [mld |-> PyIndex(fqdn_tokens, i - 1),
          tld_tokens |-> SubSeq(fqdn_tokens, i + 1, Len(fqdn_tokens)),
          tld |-> Join(SubSeq(fqdn_tokens, i + 1, Len(fqdn_tokens)), <<".">>)]
    ELSE [mld |-> PyIndex(fqdn_tokens, Len(fqdn_tokens) - 2),
          tld |-> PyIndex(fqdn_tokens, Len(fqdn_tokens) - 1),
          tld_tokens |-> <<PyIndex(fqdn_tokens, Len(fqdn_tokens) - 1)>>]

\* "mld,tld -> mld=main level domain, tld=top level domains"
Resolve(fqdn_tokens, list) ==
    IF fqdn_tokens = NoneList
    THEN [mld |-> None, tld |-> None, tld_tokens |-> NoneList]
    ELSE SplitAt(fqdn_tokens, FirstSplit(fqdn_tokens, list, 1))

\* ('xn--' in _encode_puny(domain)) and ('xn--' not in domain), e being what
\* the encoder gives for domain: [exc, val]
XnAdded(domain, e) ==
    IF e.exc # "ok" THEN [exc |-> e.exc, val |-> FALSE]
    ELSE [exc |-> "ok", val |-> /\ Contains(e.val, <<"x", "n", "-", "-">>)
                                /\ ~Contains(domain, <<"x", "n", "-", "-">>)]

\* domain = urlsplit(url)[1], sp being the split
SplitDomain(sp) ==
    IF sp.exc # "ok" THEN [exc |-> sp.exc, val |-> FALSE]
    ELSE XnAdded(sp.netloc, _encode_puny(sp.netloc))

\* self._return_decoded_puny: [exc, val]
ReturnDecodedPuny(url, puny, host) ==
    IF puny = PyNone /\ host # None THEN SplitDomain(urlsplit(url))
    ELSE [exc |-> "ok", val |-> puny # PyTrue]

\* the names as they are without decoding
Undecoded(host, r) ==
    [exc |-> "ok", mld |-> r.mld, tld |-> r.tld, tld_tokens |-> r.tld_tokens,
     host |-> host, fqdn |-> host,
     fqdn_tokens |-> IF host = None THEN NoneList ELSE Split(host, <<".">>)]

\* the names decoded, m, t and h being what the decoder gives for mld, tld
\* and host
Decoded(same, m, t, h) ==
    IF m.exc # "ok" THEN [same EXCEPT !.exc = m.exc]
    ELSE IF t.exc # "ok" THEN [same EXCEPT !.exc = t.exc]
    ELSE IF h.exc # "ok" THEN [same EXCEPT !.exc = h.exc]
    ELSE [exc |-> "ok", mld |-> m.val, tld |-> t.val, tld_tokens |-> Split(t.val, <<".">>),
          host |-> h.val, fqdn |-> h.val, fqdn_tokens |-> Split(h.val, <<".">>)]

\* "decode Punycode": [exc, mld, tld, tld_tokens, host, fqdn, fqdn_tokens]
DecodeNames(decode, host, r) ==
    IF ~(decode /\ host # None) THEN Undecoded(host, r)
    ELSE Decoded(Undecoded(host, r),
                 IF r.mld # None THEN _decode_puny(r.mld) ELSE [exc |-> "ok", val |-> None],
                 _decode_puny(r.tld), _decode_puny(host))

\* the www test without "nr_sub_domains > 0": a first label www that is the
\* mld counts as www as well
WwwStep_AnyFirstLabel(www_ignore, fqdn, fqdn_tokens, nr_sub_domains) ==
    LET www == fqdn_tokens # NoneList /\ fqdn_tokens[1] = <<"w", "w", "w">>
    IN  IF www_ignore /\ www
        THEN [www |-> www, fqdn_tokens |-> Tail(fqdn_tokens),
              fqdn |-> Join(Tail(fqdn_tokens), <<".">>),
              nr_sub_domains |-> nr_sub_domains - 1]
        ELSE [www |-> www, fqdn_tokens |-> fqdn_tokens, fqdn |-> fqdn,
              nr_sub_domains |-> nr_sub_domains]

\* "www_ignore and www=True if the subdomains start with 'www'":
\* [www, fqdn, fqdn_tokens, nr_sub_domains]
WwwStep(www_ignore, fqdn, fqdn_tokens, nr_sub_domains) ==
    LET www == fqdn_tokens # NoneList /\ nr_sub_domains > 0
               /\ fqdn_tokens[1] = <<"w", "w", "w">>
    IN  IF www_ignore /\ www
        THEN [www |-> www, fqdn_tokens |-> Tail(fqdn_tokens),
              fqdn |-> Join(Tail(fqdn_tokens), <<".">>),
              nr_sub_domains |-> nr_sub_domains - 1]
        ELSE [www |-> www, fqdn_tokens |-> fqdn_tokens, fqdn |-> fqdn,
              nr_sub_domains |-> nr_sub_domains]

\* "url": the parts put together again, None when there are none
Reassemble(tokens, ip, port) ==
    LET u == (IF tokens[1] # None THEN tokens[1] \o <<":", "/", "/">> ELSE <<>>)
             \o (IF tokens[2] # None THEN tokens[2] ELSE IF ip # None THEN ip ELSE <<>>)
             \o (IF port # None THEN <<":">> \o port ELSE <<>>)
             \o (IF tokens[3] # None THEN tokens[3] ELSE <<>>)
             \o (IF tokens[4] # None THEN <<"?">> \o tokens[4] ELSE <<>>)
             \o (IF tokens[5] # None THEN <<"#">> \o tokens[5] ELSE <<>>)
    IN  IF u = <<>> THEN None ELSE u

UrlRaised(e) == [exc |-> e]

\* the attributes of the Url: a holds the arguments, p is what _parse_url
\* returned, rdp self._return_decoded_puny, d the names, w the www step
Attributes(a, p, rdp, d, rdn, rdn_tokens, w) ==
    LET hasSd == w.fqdn_tokens # NoneList /\ rdn_tokens # NoneList /\ w.nr_sub_domains > 0
        sd_tokens == IF hasSd THEN SubSeq(w.fqdn_tokens, 1, w.nr_sub_domains) ELSE NoneList
        tokens == [p.tokens EXCEPT ![2] = d.host]
    IN  [exc |-> "ok",
         original_url |-> a.url, www_ignore |-> a.www_ignore, puny |-> a.puny,
         url_encoding |-> a.url_encoding,
         tokens |-> tokens, ip |-> p.ip, port |-> p.port, query_tokens |-> p.query_tokens,
         return_decoded_puny |-> rdp.val,
         fqdn |-> w.fqdn, fqdn_tokens |-> w.fqdn_tokens,
         mld |-> d.mld, tld |-> d.tld, tld_tokens |-> d.tld_tokens,
         rdn |-> rdn, rdn_tokens |-> rdn_tokens,
         nr_sub_domains |-> w.nr_sub_domains, www |-> w.www,
         sd_tokens |-> sd_tokens,
         sd |-> IF hasSd THEN Join(sd_tokens, <<".">>) ELSE None,
         url |-> Reassemble(tokens, p.ip, p.port),
         scheme |-> tokens[1], path |-> tokens[3], query |-> tokens[4],
         fragment |-> tokens[5],
         warned |-> p.warned]

\* "number of Subdomains" and the www step
AfterRdn(a, p, rdp, d, rdn, rdn_tokens) ==
    Attributes(a, p, rdp, d, rdn, rdn_tokens,
               WwwStep(a.www_ignore, d.fqdn, d.fqdn_tokens,
                       IF d.fqdn_tokens # NoneList /\ rdn_tokens # NoneList
                       THEN Len(d.fqdn_tokens) - Len(rdn_tokens) ELSE 0))

\* "rdn = registered domain name"
AfterDecode(a, p, rdp, d) ==
    IF d.exc # "ok" THEN UrlRaised(d.exc)
    ELSE AfterRdn(a, p, rdp, d,
                  IF d.mld # None THEN d.mld \o <<".">> \o d.tld ELSE None,
                  IF d.mld # None THEN Split(d.mld \o <<".">> \o d.tld, <<".">>) ELSE NoneList)

\* "fqdn", "mld,tld" and "decode Punycode"
AfterMode(a, list, p, rdp) ==
    IF rdp.exc # "ok" THEN UrlRaised(rdp.exc)
    ELSE AfterDecode(a, p, rdp,
                     DecodeNames(rdp.val, p.tokens[2],
                                 Resolve(IF p.tokens[2] # None
                                         THEN Split(p.tokens[2], <<".">>) ELSE NoneList,
                                         list)))

\* self._return_decoded_puny
AfterParse(a, list, p) ==
    IF p.exc # "ok" THEN UrlRaised(p.exc)
    ELSE AfterMode(a, list, p, ReturnDecodedPuny(a.url, a.puny, p.tokens[2]))

\* Url(url, www_ignore, puny, url_encoding), the class list being list
UrlInit(url, www_ignore, puny, url_encoding, list) ==
    AfterParse([url |-> url, www_ignore |-> www_ignore, puny |-> puny,
                url_encoding |-> url_encoding],
               list, _parse_url(Strip(url), PyTrue, url_encoding))

---------------------------------------------------------------------------
(* The calls.  A call is built from its parts, so that what an operation   *)
(* returns can be compared with what the caller put in:                    *)
(*   url = [scheme "://"] authority path ["?" query] ["#" fragment]        *)

MaxTrailingDots == 3
MaxLabels == 3
MaxQueryLen == 4

Assemble(scheme, authority, path, query, fragment) ==
    (IF scheme # None THEN scheme \o <<":", "/", "/">> ELSE <<>>)
    \o authority \o path
    \o (IF query # None THEN <<"?">> \o query ELSE <<>>)
    \o (IF fragment # None THEN <<"#">> \o fragment ELSE <<>>)

Call(scheme, authority, path, query, fragment, puny, url_encoding, www_ignore) ==
    [url |-> Assemble(scheme, authority, path, query, fragment),
     scheme |-> scheme, authority |-> authority, path |-> path, query |-> query,
     fragment |-> fragment,
     puny |-> puny, url_encoding |-> url_encoding, www_ignore |-> www_ignore]

Schemes == {None, <<"h", "t", "t", "p">>, <<"H", "T", "T", "P">>}
Paths == {<<>>, <<"/", "p">>}
Queries == {None, <<"a", "=", "1">>}
Fragments == {None, <<"f">>}

\* hosts that are given every number of trailing dots and every port
CoreHosts == {<<"a", ".", "c", "o">>, <<"A", ".", "c", "o">>, <<"1", ".", "2">>}
Ports == {<<>>, <<":", "8", "0">>, <<":">>, <<":", "8", ".", "0">>}

LongLabel == Rep(<<"a">>, MaxLabelLen + 1)
LongAuthority ==
    Rep(Rep(<<"a">>, MaxLabelLen) \o <<".">>, MaxAuthorityLen \div MaxLabelLen) \o <<"c", "o">>

\* authorities of other shapes: with a space, without a dot, empty, only dots,
\* with a character the codec rejects, with a misplaced hyphen, with an empty
\* label, with one bracket, with an empty host, with one label and a dotted
\* port, too long
OddAuthorities ==
    {<<"a", " ", "b", ".", "c", "o">>, <<"a", "c", "o">>, <<>>, <<".">>, <<".", ".">>,
     <<"a", "_", ".", "c", "o">>, <<"a", "_", ".", "c", "o", ":", "8", "0">>,
     <<"-", "a", ".", "c", "o">>, <<"a", ".", ".", "c", "o">>,
     <<"[", "a", ".", "c", "o">>, <<"[", "a", "c", "o">>,
     <<":", "8", ".", "0">>, <<"a", ":", "8", ".", "0">>,
     <<"a", " ", "b", ".", "c", "1">>,
     LongLabel \o <<".", "c", "o">>, LongAuthority}

Authorities ==
    {h \o Rep(<<".">>, k) \o p : h \in CoreHosts, k \in 0..MaxTrailingDots, p \in Ports}
    \cup OddAuthorities

DefaultList == << <<"c", "o">>, <<"c", "o", ".", "u", "k">>, <<"u", "k">> >>

Calls ==
    {Call(s, a, p, q, f, puny, enc, FALSE) :
        s \in Schemes, a \in Authorities, p \in Paths, q \in Queries, f \in Fragments,
        puny \in Modes, enc \in Modes}

Init ==
    /\ pc = "idle"
    /\ call \in Calls
    /\ psl = DefaultList
    /\ ret = None

\* Url.parse_url(url, puny, url_encoding)
ParseUrl ==
    /\ pc = "idle"
    /\ pc' = "parse_url"
    /\ ret' = _parse_url(call.url, call.puny, call.url_encoding)
    /\ UNCHANGED <<call, psl>>

\* Url(url, www_ignore, puny, url_encoding)
NewUrl ==
    /\ pc = "idle"
    /\ pc' = "Url"
    /\ ret' = UrlInit(call.url, call.www_ignore, call.puny, call.url_encoding, psl)
    /\ UNCHANGED <<call, psl>>

Next == ParseUrl \/ NewUrl

Spec == Init /\ [][Next]_vars

---------------------------------------------------------------------------
(* The calls of the domain resolver: hosts of 1..MaxLabels labels, under   *)
(* every list made of entries of DefaultList (each is sorted, as the       *)
(* np.sort of _get_public_suffix_list leaves the class list).              *)

Labels == {<<"w", "w", "w">>, <<"a">>, <<"c", "o">>, <<"u", "k">>}

Hosts == {Join(ls, <<".">>) : ls \in UNION {[1..n -> Labels] : n \in 1..MaxLabels}}

RECURSIVE Pick(_, _, _)
Pick(list, S, i) ==
    IF i > Len(list) THEN <<>>
    ELSE (IF i \in S THEN <<list[i]>> ELSE <<>>) \o Pick(list, S, i + 1)

SuffixLists == {Pick(DefaultList, S, 1) : S \in SUBSET (1..Len(DefaultList))}

ResolveCalls ==
    {Call(<<"h", "t", "t", "p">>, h, <<"/", "p">>, None, None, puny, PyNone, w) :
        h \in Hosts, puny \in Modes, w \in BOOLEAN}

InitResolve ==
    /\ pc = "idle"
    /\ call \in ResolveCalls
    /\ psl \in SuffixLists
    /\ ret = None

SpecResolve == InitResolve /\ [][Next]_vars

---------------------------------------------------------------------------
(* The calls of the query tokenizer: http://a.co/p?query, the query being  *)
(* every text of up to MaxQueryLen characters of QueryAlphabet, or one of  *)
(* a few longer ones, or absent.                                           *)

QueryAlphabet == {"a", "1", "=", "&", "+"}

LongerQueries ==
    {<<"a", "=", "1", "&", "b", "=", "2">>, <<"a", "=", "1", "&", "a", "=", "1">>,
     <<"n", "o", "v", "a", "l", "u", "e">>, <<"a", "=", "&", "b", "=", "2">>,
     <<"a", "=", "%", "4", "1">>, <<"a", "%", "3", "D", "1">>,
     <<"a", "=", "%", "2", "5", "4", "1">>, <<"a", " ", "b", "=", "1", "/", "2">>}

QueryTexts ==
    UNION {[1..n -> QueryAlphabet] : n \in 0..MaxQueryLen} \cup LongerQueries \cup {None}

QueryCalls ==
    {Call(<<"h", "t", "t", "p">>, <<"a", ".", "c", "o">>, <<"/", "p">>, q, None,
          PyNone, enc, FALSE) : q \in QueryTexts, enc \in Modes}

InitQuery ==
    /\ pc = "idle"
    /\ call \in QueryCalls
    /\ psl = DefaultList
    /\ ret = None

SpecQuery == InitQuery /\ [][Next]_vars

---------------------------------------------------------------------------
(* What the claims speak of *)

Parsed == pc = "parse_url"
Built == pc = "Url"
Returned == pc # "idle" /\ ret.exc = "ok"

\* the authority of the call as _parse_url sees it: the netloc of the split
HasAuthority == SplitStep(call.url).exc = "ok"
Authority == SplitStep(call.url).tokens[2]

\* the all-absent result of _parse_url
AllAbsent(r) ==
    /\ \A k \in 1..5 : r.tokens[k] = None
    /\ r.ip = None /\ r.port = None /\ r.query_tokens = NonePairs

\* a Url without a url and without a domain
NoDomain(u) ==
    /\ u.fqdn = None /\ u.mld = None /\ u.tld = None /\ u.rdn = None /\ u.sd = None

\* scheme://host[:port]/path?query#fragment: a scheme, a host of two or more
\* labels of letters, digits and inner hyphens of which the last is no number,
\* an optional port of digits, a path from /, an optional query and fragment
WellFormedLabel(l) ==
    /\ l # <<>>
    /\ Chars(l) \subseteq (AsciiLetters \cup AsciiDigits \cup {"-"})
    /\ Head(l) # "-" /\ Last(l) # "-"

WellFormedHost(h) ==
    LET labels == Split(h, <<".">>)
    IN  /\ Len(labels) >= 2
        /\ \A k \in 1..Len(labels) : WellFormedLabel(labels[k])
        /\ Last(h) \in AsciiLetters

CallHost == Split1(call.authority, <<":">>)[1]
CallPort == IF ":" \in Chars(call.authority) THEN Split1(call.authority, <<":">>)[2] ELSE None

WellFormedCall ==
    /\ call.scheme # None
    /\ WellFormedHost(CallHost)
    /\ CallPort # None => (CallPort # <<>> /\ Chars(CallPort) \subseteq AsciiDigits)
    /\ call.path # <<>> /\ Head(call.path) = "/"
    /\ call.query # <<>> /\ call.fragment # <<>>

---------------------------------------------------------------------------
(* C1: a Url built from a well-formed scheme://host[:port]/path?query#fragment *)
(* with the puny and url-encoding modes left unchanged gives back exactly the  *)
(* scheme, host, port, path, query and fragment of the input, and its url is   *)
(* the input string.                                                           *)
C1_RoundTrip ==
    (Built /\ call.puny = PyNone /\ call.url_encoding = PyNone /\ WellFormedCall)
    => /\ ret.exc = "ok"
       /\ ret.scheme = call.scheme
       /\ ret.fqdn = CallHost
       /\ ret.port = CallPort
       /\ ret.path = call.path
       /\ ret.query = call.query
       /\ ret.fragment = call.fragment
       /\ ret.url = call.url

(* C4: an input whose authority holds a space, holds no '.', or is longer than *)
(* 255 characters makes parse_url return the all-absent result with the        *)
(* diagnostic, and the Url built from it has no url, fqdn, mld, tld, rdn, sd.  *)
Malformed ==
    /\ HasAuthority
    /\ LET a == Authority
       IN  " " \in Chars(a) \/ "." \notin Chars(a) \/ Len(a) > 255

C4_WitnessUrl == Built /\ Malformed /\ Len(Authority) > 255 /\ ret.url = None

(* C5: an input whose authority has a label longer than 63 characters is       *)
(* rejected as malformed (all fields absent, diagnostic raised), so every host *)
(* parse_url returns has only labels of at most 63 characters.                 *)
C5_LabelLength ==
    Parsed =>
       /\ (HasAuthority /\ \E l \in Chars(Split(Authority, <<".">>)) : Len(l) > 63)
            => (ret.exc = "ok" /\ AllAbsent(ret) /\ ret.warned)
       /\ (ret.exc = "ok" /\ ret.tokens[2] # None)
            => \A l \in Chars(Split(ret.tokens[2], <<".">>)) : Len(l) <= 63

(* C6: for every text input and every puny and url-encoding mode, parse_url    *)
(* returns a token result or the all-absent result; it never ends in an        *)
(* unhandled error.                                                            *)
C6_NoAbort == Parsed => ret.exc = "ok"

(* C7: host and ip are never both present; when the authority, after the port  *)
(* is split off, ends in an ASCII digit, ip is that text and host is absent,   *)
(* and the Url has no fqdn, fqdn_tokens, mld, tld, rdn, sd and 0 subdomains;   *)
(* when it does not end in a digit, ip is absent.                              *)
BeforeIpStep(url) ==
    PortStep(TrailingDotsStep(EmptyToNoneStep(ValidateStep(SplitStep(url)))))

HostText == BeforeIpStep(Strip(call.url)).tokens[2]

C7_HostIpExclusive ==
    Returned =>
       LET h == HostText
       IN  /\ ~(ret.tokens[2] # None /\ ret.ip # None)
           /\ (h # None /\ Last(h) \in AsciiDigits)
                => /\ ret.ip = h /\ ret.tokens[2] = None
                   /\ Built => /\ NoDomain(ret) /\ ret.fqdn_tokens = NoneList
                               /\ ret.nr_sub_domains = 0
           /\ (h # None /\ Last(h) \notin AsciiDigits) => ret.ip = None

C7_Witness ==
    /\ Built /\ ret.exc = "ok" /\ ret.ip = <<"1", ".", "2">> /\ ret.port = <<"8", "0">>
    /\ ret.fqdn = None /\ ret.nr_sub_domains = 0

C7_WitnessHost == Parsed /\ ret.exc = "ok" /\ ret.tokens[2] # None /\ ret.ip = None

(* C8: when the puny mode is Encode and the codec reports a codepoint it       *)
(* cannot represent, parse_url returns host, ip and port absent, with every    *)
(* other token and queryParams, whatever the input carried.                    *)
EncodeFails ==
    LET st == IpStep(BeforeIpStep(call.url))
    IN  /\ call.puny = PyTrue /\ st.exc = "ok" /\ st.tokens[2] # None
        /\ _encode_puny(st.tokens[2]).exc = "InvalidCodepoint"

C8_EncodeFailureAllAbsent ==
    (Parsed /\ EncodeFails) => (ret.exc = "ok" /\ AllAbsent(ret))

C8_Witness ==
    /\ Parsed /\ EncodeFails /\ ":" \in Chars(Authority)
    /\ call.scheme # None /\ call.path # <<>> /\ call.query # None /\ call.fragment # None
    /\ AllAbsent(ret)

---------------------------------------------------------------------------
(* The resolver's claims.  HostLabels are the labels of the host the Url   *)
(* was built from, Suffix(T, i) the join of T[i:] (i counted from 0).      *)

HasHost == Built /\ ret.exc = "ok" /\ ret.tokens[2] # None
HostLabels == Split(ret.tokens[2], <<".">>)

Suffix(T, i) == Join(SubSeq(T, i + 1, Len(T)), <<".">>)
Entries == {psl[k] : k \in 1..Len(psl)}
Matches(T) == {i \in 1..(Len(T) - 1) : Suffix(T, i) \in Entries}

(* C2: for a host of two or more labels the resolver takes the smallest i in   *)
(* 1..len-1 whose join of tokens[i:] is in the suffix list, and returns that   *)
(* join as tld and tokens[i-1] as mld; the tld is the longest list entry that  *)
(* is a right-aligned proper label suffix of the host.                         *)
C2_LongestMatch ==
    HasHost =>
       LET T == HostLabels
           M == Matches(T)
       IN  (Len(T) >= 2 /\ M # {})
           => /\ \E i \in M :
                    /\ \A j \in M : i <= j
                    /\ ret.tld = Suffix(T, i)
                    /\ ret.tld_tokens = SubSeq(T, i + 1, Len(T))
                    /\ ret.mld = T[i]
              /\ ret.tld \in Entries
              /\ \A j \in M : Len(Suffix(T, j)) <= Len(ret.tld)

C2_Witness ==
    /\ HasHost /\ ret.tokens[2] = <<"a", ".", "c", "o", ".", "u", "k">>
    /\ Entries = {<<"u", "k">>, <<"c", "o", ".", "u", "k">>}
    /\ ret.tld = <<"c", "o", ".", "u", "k">> /\ ret.mld = <<"a">>

(* C3: for a host none of whose suffixes tokens[i:], i in 1..len-1, is in the  *)
(* list, the resolver still returns a result: tld is the last label,           *)
(* tld_tokens that single label, mld the label just before it.                 *)
C3_Fallback ==
    HasHost =>
       LET T == HostLabels
       IN  Matches(T) = {}
           => /\ ret.tld = T[Len(T)]
              /\ ret.tld_tokens = <<T[Len(T)]>>
              /\ Len(T) >= 2
              /\ ret.mld = T[Len(T) - 1]

(* C10: with www-stripping enabled, a host whose first label is "www" and a    *)
(* subdomain gets fqdn_tokens without that label, fqdn their join, one         *)
(* subdomain less and www true; with stripping disabled it keeps its labels    *)
(* and count and still has www true; the mld is never removed.                 *)
C10_WwwStripping ==
    HasHost =>
       LET T == HostLabels
           count == Len(T) - Len(ret.rdn_tokens)
           sub == T[1] = <<"w", "w", "w">> /\ count >= 1
           kept == IF sub /\ call.www_ignore THEN Tail(T) ELSE T
       IN  /\ ret.www = sub
           /\ ret.fqdn_tokens = kept
           /\ ret.fqdn = Join(kept, <<".">>)
           /\ ret.nr_sub_domains = (IF sub /\ call.www_ignore THEN count - 1 ELSE count)
           /\ ret.fqdn_tokens[ret.nr_sub_domains + 1] = ret.mld

C10_Witness ==
    /\ HasHost /\ call.www_ignore /\ ret.tokens[2] = <<"w", "w", "w", ".", "a", ".", "c", "o">>
    /\ <<"c", "o">> \in Entries
    /\ ret.fqdn = <<"a", ".", "c", "o">> /\ ret.nr_sub_domains = 0 /\ ret.www

C10_WitnessKept ==
    /\ HasHost /\ ~call.www_ignore /\ ret.www /\ ret.nr_sub_domains = 1
    /\ ret.fqdn = ret.tokens[2]

---------------------------------------------------------------------------
(* The query tokenizer's claims, on the calls that were parsed (not        *)
(* rejected): the query is the one of the input, before any url decoding   *)
(* or encoding.                                                            *)

Tokenized == Returned /\ (ret.tokens[2] # None \/ ret.ip # None)

NoPairs == call.query = None \/ "=" \notin Chars(call.query)

NameOf(item) == Split1(item, <<"=">>)[1]
ValueOf(item) == Split1(item, <<"=">>)[2]

IsNameValue(item) == "=" \in Chars(item)
HasValue(item) == "=" \in Chars(item) /\ ValueOf(item) # <<>>

\* the (name, value) pairs of the query as they are written in it
WrittenPairs(query) ==
    LET items == SelectSeq(Split(query, <<"&">>), IsNameValue)
    IN  [k \in 1..Len(items) |-> <<NameOf(items[k]), ValueOf(items[k])>>]

\* the pairs of the items that have a value, percent-decoded with '+' read as
\* a space, then decoded again or percent-encoded as url_encoding asks
DecodedPairs(query, url_encoding) ==
    LET items == SelectSeq(Split(query, <<"&">>), HasValue)
        Dec(t) == _get_url_decoding(PlusToSpace(t))
        Mode(t) == IF url_encoding = PyFalse THEN _get_url_decoding(t)
                   ELSE IF url_encoding = PyTrue THEN _get_url_encoding(t, <<>>)
                   ELSE t
    IN  [k \in 1..Len(items) |-> <<Mode(Dec(NameOf(items[k]))), Mode(Dec(ValueOf(items[k])))>>]

C9_Witness ==
    /\ Parsed /\ Tokenized /\ call.url_encoding = PyNone
    /\ call.query = <<"a", "=", "1", "&", "a", "=", "1">>
    /\ ret.query_tokens = << << <<"a">>, <<"1">> >>, << <<"a">>, <<"1">> >> >>

C9_WitnessAbsent ==
    /\ Parsed /\ Tokenized /\ call.query = <<"n", "o", "v", "a", "l", "u", "e">>
    /\ ret.query_tokens = NonePairs /\ ret.tokens[4] = call.query

---------------------------------------------------------------------------
\* the subdomain tokens of a Url, none when sd is absent
SdTokens == IF ret.sd_tokens = NoneList THEN <<>> ELSE ret.sd_tokens

(* C11: for every Url with a present host, rdn = mld + "." + tld, the      *)
(* subdomain count equals the number of subdomain tokens and is at least   *)
(* 0, and fqdn_tokens is the subdomain tokens followed by the rdn tokens.  *)
C11_Decomposition ==
    HasHost =>
       /\ ret.rdn = ret.mld \o <<".">> \o ret.tld
       /\ ret.nr_sub_domains = Len(SdTokens)
       /\ ret.nr_sub_domains >= 0
       /\ ret.fqdn_tokens = SdTokens \o ret.rdn_tokens

\* where the decomposition holds: a host of three labels with two subdomains
C11_WitnessHolds ==
    /\ HasHost /\ ret.nr_sub_domains = 2 /\ Len(ret.fqdn_tokens) = 3
    /\ ret.fqdn_tokens = SdTokens \o ret.rdn_tokens

---------------------------------------------------------------------------
(* Url.mld_of_tld(text, tld): the label in front of the first "." + tld of *)
(* text.  The source reverses the text in front of the match and walks it. *)

Reverse(s) == [i \in 1..Len(s) |-> s[Len(s) + 1 - i]]

\* "i is a character not allowed in domain names", n being ord(i)
NotAllowedCode(n) == n # 45 /\ (n < 65 \/ n > 122) /\ (n < 48 \/ n > 57)

NotAllowed(c) == NotAllowedCode(Ord(c))

\* j when the for loop has ended: the 0-based index of the first character
\* that is not allowed, the last index when there is none, -1 for no text
ScanEnd(text) ==
    LET bad == {k \in 1..Len(text) : NotAllowed(text[k])}
    IN  IF bad = {} THEN Len(text) - 1
        ELSE (CHOOSE k \in bad : \A m \in bad : k <= m) - 1

\* "if j == len(text) - 1: mld = text; else: mld = text[:j]"
ScanTaken(text, j) == IF j = Len(text) - 1 THEN text ELSE SubSeq(text, 1, j)

\* "if mld[0] == '-': mld = mld[1:]", on a text that is not empty
DropHyphen(mld) == IF mld[1] = "-" THEN Tail(mld) ELSE mld

\* the end of mld_of_tld, mld being the reversed text taken by the scan
TrimLabel(mld) ==
    IF Len(mld) < 2 THEN None
    ELSE DropHyphen(Reverse(DropHyphen(IF Len(mld) > 63 THEN SubSeq(mld, 1, 63) ELSE mld)))

\* text.split('.' + tld)[0][::-1], walked and trimmed
LabelBefore(text) == TrimLabel(ScanTaken(text, ScanEnd(text)))

mld_of_tld(text, tld) ==
    IF ~Contains(text, <<".">> \o tld) THEN None
    ELSE LabelBefore(Reverse(Split(text, <<".">> \o tld)[1]))

---------------------------------------------------------------------------
(* The calls of mld_of_tld: a text in front of ".com", of up to            *)
(* MaxPrefixLen characters or longer than a label may be, alone or         *)
(* followed by more text, and texts that do not hold ".com".               *)

MaxPrefixLen == 4

Com == <<"c", "o", "m">>

DotCom == <<".", "c", "o", "m">>

PrefixAlphabet == {"a", "B", "1", "-", "/", "_"}

Prefixes == UNION {[1..n -> PrefixAlphabet] : n \in 0..MaxPrefixLen}

\* 70 characters, more than the 63 of a label
LongPrefix == Rep(<<"a">>, 70)

LabelTexts ==
    {p \o DotCom : p \in Prefixes \cup {LongPrefix, <<"/">> \o LongPrefix}}
    \cup {p \o DotCom \o <<"/", "x", ".", "c", "o", "m">> : p \in Prefixes}
    \cup {p : p \in Prefixes}

LabelCalls == {[text |-> t, tld |-> Com] : t \in LabelTexts}

InitLabel ==
    /\ pc = "idle"
    /\ call \in LabelCalls
    /\ psl = DefaultList
    /\ ret = None

MldOfTld ==
    /\ pc = "idle"
    /\ pc' = "mld_of_tld"
    /\ ret' = [exc |-> "ok", val |-> mld_of_tld(call.text, call.tld)]
    /\ UNCHANGED <<call, psl>>

NextLabel == MldOfTld

SpecLabel == InitLabel /\ [][NextLabel]_vars

---------------------------------------------------------------------------
\* mld_of_tld has returned a label
LabelReturned == pc = "mld_of_tld" /\ ret.val # None

(* C14: every label that mld_of_tld returns has between 2 and 63           *)
(* characters, counted after the leading and the trailing hyphen have been *)
(* trimmed, and neither starts nor ends with a hyphen.                     *)
C14_LabelLength ==
    LabelReturned =>
       /\ Len(ret.val) >= 2 /\ Len(ret.val) <= 63
       /\ ret.val[1] # "-"
       /\ ret.val[Len(ret.val)] # "-"

\* a letter, a digit or a hyphen
LabelChar(c) == IsAlpha(c) \/ IsDigit(c) \/ c = "-"

\* the run of label characters that ends text
RECURSIVE LabelRun(_)
LabelRun(text) ==
    IF text = <<>> \/ ~LabelChar(text[Len(text)]) THEN <<>>
    ELSE LabelRun(SubSeq(text, 1, Len(text) - 1)) \o <<text[Len(text)]>>

\* the text in front of the first ".tld" of the call
TextBefore == Split(call.text, <<".">> \o call.tld)[1]

(* C19: the label mld_of_tld returns is taken from the run of letters,     *)
(* digits and hyphens that directly precedes the first "." + tld, the run  *)
(* stopping at the first other character wherever it stands, so a returned *)
(* label holds only letters, digits and hyphens.                           *)
C19_LabelCharacters ==
    LabelReturned =>
       /\ \A k \in 1..Len(ret.val) : LabelChar(ret.val[k])
       /\ Contains(LabelRun(TextBefore), ret.val)

---------------------------------------------------------------------------
(* The methods of a Url: rdn_in_sd, rdn_in_path, free_url_tokens and       *)
(* free_url.  Each gives [exc, val]; self is the record of the Url.        *)

Returns(v) == [exc |-> "ok", val |-> v]

Raises(e) == [exc |-> e, val |-> None]

\* tld after "for i in Url.public_suffix_list" from entry k on: the longest
\* entry i with '.' + i + c in hay, the first of them when several are as long
RECURSIVE LongestEntry(_, _, _, _, _)
LongestEntry(list, k, hay, c, tld) ==
    IF k > Len(list) THEN tld
    ELSE LongestEntry(list, k + 1, hay, c,
                      IF Contains(hay, <<".">> \o list[k] \o c) /\ Len(tld) < Len(list[k])
                      THEN list[k] ELSE tld)

\* mld + '.' + tld
JoinRdn(mld, tld) ==
    IF mld = None THEN Raises("TypeError") ELSE Returns(mld \o <<".">> \o tld)

\* the same with mld and tld decoded first, m and t being what the decoder
\* gives for them
JoinDecoded(m, t) ==
    IF m.exc # "ok" THEN Raises(m.exc)
    ELSE IF t.exc # "ok" THEN Raises(t.exc)
    ELSE Returns(m.val \o <<".">> \o t.val)

\* "find the mld which belongs to the found tld. Decode results, in case
\* the sd was puny encoded earlier."
SdResult(decoded, mld, tld) ==
    IF ~decoded THEN JoinRdn(mld, tld)
    ELSE IF mld = None THEN Raises("TypeError")
    ELSE JoinDecoded(_decode_puny(mld), _decode_puny(tld))

SdFound(decoded, subdomains, tld) ==
    IF tld = <<>> THEN Returns(None)
    ELSE SdResult(decoded, mld_of_tld(subdomains, tld), tld)

\* e is the subdomain text in puny code, or the exception of the encoder
SdDetect(decoded, list, e) ==
    IF e.exc # "ok" THEN Raises(e.exc)
    ELSE SdFound(decoded, e.val, LongestEntry(list, 1, e.val \o <<".">>, <<".">>, <<>>))

rdn_in_sd(self, list) ==
    IF self.sd_tokens = NoneList THEN Returns(None)
    ELSE SdDetect(self.return_decoded_puny, list,
                  IF self.return_decoded_puny THEN _encode_puny(self.sd)
                  ELSE Returns(self.sd))

\* "for character in [' ', '/', '?', '#', ';', '.']"
BoundaryCharacters == <<" ", "/", "?", "#", ";", ".">>

\* tld after the loop over the characters from the k-th on, with the break
\* at the first character under which an entry was found
RECURSIVE PathSuffix(_, _, _)
PathFrom(list, path, k, tld) ==
    IF tld # <<>> THEN tld ELSE PathSuffix(list, path, k + 1)

PathSuffix(list, path, k) ==
    IF k > Len(BoundaryCharacters) THEN <<>>
    ELSE PathFrom(list, path, k,
                  LongestEntry(list, 1, path \o <<BoundaryCharacters[k]>>,
                               <<BoundaryCharacters[k]>>, <<>>))

PathFound(path, tld) ==
    IF tld = <<>> THEN Returns(None) ELSE JoinRdn(mld_of_tld(path, tld), tld)

rdn_in_path(self, list) ==
    IF self.path = None THEN Returns(None)
    ELSE PathFound(self.path, PathSuffix(list, self.path, 1))

\* "free_url_tokens = self._tokens[1:]; free_url_tokens[0] = self.sd"
free_url_tokens(self) == [Tail(self.tokens) EXCEPT ![1] = self.sd]

\* the text of free_url for the five entries it reads
FreeUrlText(t) ==
    (IF t[1] # None THEN t[1] ELSE <<>>)
    \o (IF t[2] # None THEN t[2] ELSE <<>>)
    \o (IF t[3] # None THEN <<";">> \o t[3] ELSE <<>>)
    \o (IF t[4] # None THEN <<"?">> \o t[4] ELSE <<>>)
    \o (IF t[5] # None THEN <<"#">> \o t[5] ELSE <<>>)

\* free_url_tokens[4] is read whatever the other entries are
FreeUrlOf(t) ==
    IF Len(t) < 5 THEN Raises("IndexError")
    ELSE Returns(<<IF FreeUrlText(t) = <<>> THEN None ELSE FreeUrlText(t), t>>)

free_url(self) == FreeUrlOf(free_url_tokens(self))

---------------------------------------------------------------------------
(* The calls of the methods: a Url is built from a host with or without    *)
(* subdomains that hold a suffix, and a path with or without a domain in   *)
(* it, under every list of SuffixLists; then one method is called on it.   *)

Str_ab == <<"a", "b">>

DetectSubdomains ==
    {<<>>,
     Str_ab \o <<".">>,
     Str_ab \o <<".", "c", "o", ".">>,
     <<"a", ".", "c", "o", ".">>,
     <<"l", ".">> \o Str_ab \o <<".", "c", "o", ".">>,
     Str_ab \o <<".", "c", "o", ".", "u", "k", ".">>,
     <<"c", "o", ".">> \o Str_ab \o <<".">>,
     Str_ab \o <<".", "u", "k", ".", "c", "o", ".">>}

DetectHosts == {sd \o <<"c", "d", ".", "u", "k">> : sd \in DetectSubdomains}

DetectPaths ==
    {<<>>,
     <<"/", "p">>,
     <<"/", "r", "/">> \o Str_ab \o <<".", "c", "o", "/", "l">>,
     <<"/", "a", ".", "c", "o", "/", "x">>,
     <<"/", "r", "/", "a", ".", "c", "o", "/", "l">>,
     <<"/">> \o Str_ab \o <<".", "c", "o">>,
     <<"/", "r", "/">> \o Str_ab \o <<".", "u", "k", " ", "c", "d", ".", "c", "o", ".", "u", "k", "/">>,
     <<"/">> \o Str_ab \o <<".", "u", "k", "/", "c", "d", ".", "c", "o">>,
     <<"/", "x", ".", "c", "o", "u", "k">>}

DetectCalls ==
    {Call(<<"h", "t", "t", "p">>, h, p, qf[1], qf[2], puny, PyNone, FALSE) :
        h \in DetectHosts, p \in DetectPaths,
        qf \in {<<None, None>>, <<<<"a", "=", "1">>, <<"f">>>>},
        puny \in Modes}
    \cup {Call(None, <<"a", " ", "b">>, <<>>, None, None, puny, PyNone, FALSE) : puny \in Modes}

InitDetect ==
    /\ pc = "idle"
    /\ call \in DetectCalls
    /\ psl \in SuffixLists
    /\ ret = None

\* the result of a method, with the Url it was called on
Outcome(r, self) == [exc |-> r.exc, val |-> r.val, self |-> self]

RdnInSd ==
    /\ pc = "Url" /\ ret.exc = "ok"
    /\ pc' = "rdn_in_sd"
    /\ ret' = Outcome(rdn_in_sd(ret, psl), ret)
    /\ UNCHANGED <<call, psl>>

RdnInPath ==
    /\ pc = "Url" /\ ret.exc = "ok"
    /\ pc' = "rdn_in_path"
    /\ ret' = Outcome(rdn_in_path(ret, psl), ret)
    /\ UNCHANGED <<call, psl>>

FreeUrl ==
    /\ pc = "Url" /\ ret.exc = "ok"
    /\ pc' = "free_url"
    /\ ret' = Outcome(free_url(ret), ret)
    /\ UNCHANGED <<call, psl>>

NextDetect == NewUrl \/ RdnInSd \/ RdnInPath \/ FreeUrl

SpecDetect == InitDetect /\ [][NextDetect]_vars

---------------------------------------------------------------------------
\* the longest entries of a set of suffixes
Longest(M) == {S \in M : \A T \in M : Len(T) <= Len(S)}

\* d is a label followed by "." and S
LabelAnd(d, S) ==
    /\ Len(d) > Len(S) + 1
    /\ SubSeq(d, Len(d) - Len(S), Len(d)) = <<".">> \o S

\* the suffixes S of the list with "." + S + "." occurring in text + "."
SdMatches(text) == {S \in Entries : Contains(text \o <<".">>, <<".">> \o S \o <<".">>)}

(* C12: rdn_in_sd gives no domain when no suffix S of the list has         *)
(* "." + S + "." occurring in the subdomain text + "."; otherwise it gives *)
(* the label that precedes S in the text, then ".", then S, S being the    *)
(* longest such suffix.                                                     *)
C12_DetectInSubdomains ==
    pc = "rdn_in_sd" =>
       IF ret.self.sd = None \/ SdMatches(ret.self.sd) = {}
       THEN ret.exc = "ok" /\ ret.val = None
       ELSE /\ ret.exc = "ok" /\ ret.val # None
            /\ \E S \in Longest(SdMatches(ret.self.sd)) : LabelAnd(ret.val, S)
            /\ Contains(ret.self.sd \o <<".">>, ret.val \o <<".">>)

\* where the detector finds the domain: "ab.co" in the subdomains "l.ab.co"
C12_WitnessFound ==
    /\ pc = "rdn_in_sd" /\ ret.exc = "ok"
    /\ ret.self.sd = <<"l", ".", "a", "b", ".", "c", "o">>
    /\ ret.val = <<"a", "b", ".", "c", "o">>

\* the suffixes S of the list with "." + S + c occurring in text + c
PathMatches(text, c) == {S \in Entries : Contains(text \o <<c>>, <<".">> \o S \o <<c>>)}

\* the boundary characters under which a suffix matches
Matching(text) ==
    {k \in 1..Len(BoundaryCharacters) : PathMatches(text, BoundaryCharacters[k]) # {}}

\* the first of them
FirstMatching(text) == CHOOSE k \in Matching(text) : \A m \in Matching(text) : k <= m

(* C13: rdn_in_path tries the boundary characters in the order space, '/', *)
(* '?', '#', ';', '.'; the suffix reported is the longest S with           *)
(* "." + S + c occurring in path + c for the first character c under which *)
(* a suffix matches, whatever matches under a later character; no domain   *)
(* is given only when no character yields a match.                         *)
C13_BoundaryPriority ==
    pc = "rdn_in_path" =>
       IF ret.self.path = None \/ Matching(ret.self.path) = {}
       THEN ret.exc = "ok" /\ ret.val = None
       ELSE /\ ret.exc = "ok" /\ ret.val # None
            /\ \E S \in Longest(PathMatches(ret.self.path,
                                            BoundaryCharacters[FirstMatching(ret.self.path)])) :
                  LabelAnd(ret.val, S)

\* where the first boundary decides: "uk" matches in front of the space
\* and is reported, although the longer "co.uk" matches in front of '/'
C13_WitnessPriority ==
    /\ pc = "rdn_in_path" /\ ret.exc = "ok"
    /\ psl = DefaultList
    /\ ret.self.path = <<"/", "r", "/">> \o Str_ab \o <<".", "u", "k", " ", "c", "d", ".", "c", "o", ".", "u", "k", "/">>
    /\ ret.val = Str_ab \o <<".", "u", "k">>

\* a part that is present, with what is written in front of it
Part(prefix, x) == IF x = None THEN <<>> ELSE prefix \o x

\* subdomains, path, '?' + query, '#' + fragment
FreeUrlView(u) ==
    Part(<<>>, u.sd) \o Part(<<>>, u.path) \o Part(<<"?">>, u.query) \o Part(<<"#">>, u.fragment)

(* C15: for a Url parsed from a well-formed URL, free_url returns the      *)
(* subdomains followed directly by the path, then '?' + query and          *)
(* '#' + fragment when they are present, an absent part giving neither     *)
(* text nor separator, with the 4 tokens [subdomains, path, query,         *)
(* fragment].                                                              *)
C15_FreeUrlView ==
    (pc = "free_url" /\ ret.self.tokens[2] # None) =>
       /\ ret.exc = "ok"
       /\ ret.val[1] = (IF FreeUrlView(ret.self) = <<>> THEN None ELSE FreeUrlView(ret.self))
       /\ ret.val[2] = <<ret.self.sd, ret.self.path, ret.self.query, ret.self.fragment>>

\* free_url returns for a text that is no URL, all parts absent
C15_WitnessMalformed ==
    /\ pc = "free_url" /\ ret.exc = "ok" /\ NoDomain(ret.self)
    /\ ret.val[1] = None

---------------------------------------------------------------------------
(* _get_public_suffix_list: the entries read from the file are sorted,     *)
(* then freed of their markers, then encoded or decoded one by one.        *)

\* the number of leading characters that a and b share
CommonLen(a, b) ==
    CHOOSE n \in 0..Len(a) :
       /\ n <= Len(b)
       /\ \A m \in 1..n : a[m] = b[m]
       /\ (n = Len(a) \/ n = Len(b) \/ a[n + 1] # b[n + 1])

\* a < b for texts that share their first n characters and differ after them
LessAfter(a, b, n) ==
    IF n = Len(a) THEN n < Len(b)
    ELSE n < Len(b) /\ Ord(a[n + 1]) < Ord(b[n + 1])

\* the order of np.sort on texts: by code point, a prefix first
StrLess(a, b) == LessAfter(a, b, CommonLen(a, b))

\* "if suffix_list[i][0:2] == '*.'" for entries of more than 2 characters
DropWildcard(e) ==
    IF Len(e) > 2 /\ SubSeq(e, 1, 2) = <<"*", ".">> THEN SubSeq(e, 3, Len(e)) ELSE e

\* "if suffix_list[i][0] == '!'" for entries of more than 1 character, then
\* the wildcard test on what is left
DropMarkers(e) ==
    DropWildcard(IF Len(e) > 1 /\ e[1] = "!" THEN Tail(e) ELSE e)

\* np.delete(suffix_list, i), i counted from 1
Delete(list, i) == SubSeq(list, 1, i - 1) \o SubSeq(list, i + 1, Len(list))

\* the while loop from index i on (i counted from 1), list being the list
\* as the loop has left it so far
RECURSIVE CodecLoop(_, _, _)
CodecStep(list, i, puny, e) ==
    IF e.exc = "ok" THEN CodecLoop([list EXCEPT ![i] = e.val], i + 1, puny)
    ELSE IF e.exc = "InvalidCodepoint" THEN CodecLoop(Delete(list, i), i, puny)
    ELSE Raises(e.exc)

CodecLoop(list, i, puny) ==
    IF i > Len(list) THEN Returns(list)
    ELSE IF list[i] = <<>> THEN CodecLoop(Delete(list, i), i, puny)
    ELSE CodecStep(list, i, puny,
                   IF puny = PyTrue THEN _encode_puny(list[i]) ELSE _decode_puny(list[i]))

\* the construction from the sorted entries
FromSorted(suffix_list, puny) ==
    IF puny = PyNone THEN Returns(suffix_list)
    ELSE CodecLoop([k \in 1..Len(suffix_list) |-> DropMarkers(suffix_list[k])], 1, puny)

\* lines being the entries that np.genfromtxt has read from the file
_get_public_suffix_list(lines, puny) == FromSorted(SortSeq(lines, StrLess), puny)

---------------------------------------------------------------------------
(* The calls of the construction: up to MaxLines different entries, with   *)
(* and without markers, in any order, some not accepted by the codec.      *)

MaxLines == 3

RawEntries ==
    {<<"u", "k">>, <<"c", "o">>, <<"C", "o">>, <<"!", "c", "o">>, <<"*", ".", "u", "k">>,
     <<"a", "_">>, <<"-", "a">>, <<>>}

ListCalls ==
    {[lines |-> l, puny |-> puny] :
        l \in {f \in UNION {[1..n -> RawEntries] : n \in 0..MaxLines} :
                  \A i, j \in 1..Len(f) : f[i] = f[j] => i = j},
        puny \in Modes}

InitList ==
    /\ pc = "idle"
    /\ call \in ListCalls
    /\ psl = DefaultList
    /\ ret = None

GetPublicSuffixList ==
    /\ pc = "idle"
    /\ pc' = "get_public_suffix_list"
    /\ ret' = _get_public_suffix_list(call.lines, call.puny)
    /\ UNCHANGED <<call, psl>>

NextList == GetPublicSuffixList

SpecList == InitList /\ [][NextList]_vars

---------------------------------------------------------------------------
\* the construction was asked to normalize the entries
Normalizing == pc = "get_public_suffix_list" /\ call.puny # PyNone

\* the entry without its marker
Unmarked(e) ==
    IF Len(e) > 1 /\ e[1] = "!" THEN Tail(e)
    ELSE IF Len(e) > 2 /\ e[1] = "*" /\ e[2] = "." THEN SubSeq(e, 3, Len(e))
    ELSE e

\* what the codec makes of a text
Normal(e, puny) == IF puny = PyTrue THEN _encode_puny(e) ELSE _decode_puny(e)

\* the normalized forms of the lines that have one
NormalForms ==
    {Normal(Unmarked(call.lines[k]), call.puny).val :
        k \in {j \in 1..Len(call.lines) :
                  /\ Unmarked(call.lines[j]) # <<>>
                  /\ Normal(Unmarked(call.lines[j]), call.puny).exc = "ok"}}

(* C16: the list that the construction returns is in ascending sorted      *)
(* order and holds no entry twice, its entries being the marker-stripped,  *)
(* normalized forms of the lines.                                          *)
C16_SortedSet ==
    (Normalizing /\ ret.exc = "ok") =>
       /\ \A i, j \in 1..Len(ret.val) : i < j => StrLess(ret.val[i], ret.val[j])
       /\ {ret.val[k] : k \in 1..Len(ret.val)} = NormalForms

\* where the list is as claimed: two different entries, one with a marker
C16_WitnessSorted ==
    /\ Normalizing /\ ret.exc = "ok"
    /\ call.lines = << <<"u", "k">>, <<"!", "c", "o">> >>
    /\ ret.val = << <<"c", "o">>, <<"u", "k">> >>

\* the entries that the codec accepts, normalized, in the order of list
RECURSIVE AcceptedForms(_, _)
AcceptedForms(list, puny) ==
    IF list = <<>> THEN <<>>
    ELSE (IF Head(list) # <<>> /\ Normal(Head(list), puny).exc = "ok"
          THEN <<Normal(Head(list), puny).val>> ELSE <<>>)
         \o AcceptedForms(Tail(list), puny)

\* the entries in the order in which the loop meets them, without markers
Met == [k \in 1..Len(call.lines) |-> Unmarked(SortSeq(call.lines, StrLess)[k])]

(* C20: the constructed list holds exactly the normalized forms of the     *)
(* non-empty entries that the codec accepts, in their relative order: an   *)
(* entry that is empty or that the codec rejects removes only itself, and  *)
(* the entry after it is still normalized and kept.                        *)
C20_EntryRejection ==
    Normalizing => (ret.exc = "ok" /\ ret.val = AcceptedForms(Met, call.puny))

\* where a rejected entry removes only itself: "a_" is dropped, the "co"
\* that follows it is kept
C20_WitnessDropped ==
    /\ Normalizing /\ ret.exc = "ok"
    /\ call.lines = << <<"a", "_">>, <<"c", "o">> >>
    /\ ret.val = << <<"c", "o">> >>

---------------------------------------------------------------------------
(* Webpage.tokenize(string, minimal_length, mapping, include, no_capital). *)
(* A mapping is a sequence of items; an item of the documented form        *)
(* ('a', 'xyz') is <<"a" as text, "xyz" as text>>, and the empty string,   *)
(* of which the default mapping ('', '') holds two, is <<>>.               *)

\* "for tupel in _mapping" from the k-th item on, then "return ' '"
RECURSIVE MappedFrom(_, _, _)
MappedFrom(character, mapping, k) ==
    IF k > Len(mapping) THEN Returns(<<" ">>)
    ELSE IF Len(mapping[k]) < 2 THEN Raises("IndexError")
    ELSE IF character \in Chars(mapping[k][2]) THEN Returns(mapping[k][1])
    ELSE MappedFrom(character, mapping, k + 1)

\* replace(character, _mapping, _include), n being ord(character); the
\* test of _include is an elif after the two tests of no_capital
ReplaceCode(character, n, mapping, include, no_capital) ==
    IF 97 <= n /\ n <= 122 THEN Returns(<<character>>)
    ELSE IF no_capital = PyTrue /\ 65 <= n /\ n <= 90 THEN Returns(<<Chr(n + 32)>>)
    ELSE IF no_capital = PyFalse /\ 65 <= n /\ n <= 90 THEN Returns(<<character>>)
    ELSE IF no_capital = PyNone /\ character \in Chars(include) THEN Returns(<<character>>)
    ELSE MappedFrom(character, mapping, 1)

replace(character, mapping, include, no_capital) ==
    ReplaceCode(character, Ord(character), mapping, include, no_capital)

\* "tokens += replace(char, mapping, include)", r being what replace gave
\* for the first character and rest what the loop gives for the others
Added(r, rest) ==
    IF r.exc # "ok" THEN r
    ELSE IF rest.exc # "ok" THEN rest
    ELSE Returns(r.val \o rest.val)

\* "for char in string"
RECURSIVE Exchanged(_, _, _, _)
Exchanged(string, mapping, include, no_capital) ==
    IF string = <<>> THEN Returns(<<>>)
    ELSE Added(replace(Head(string), mapping, include, no_capital),
               Exchanged(Tail(string), mapping, include, no_capital))

\* "remove all _tokens who are shorter than minimal length", from index i
\* on (i counted from 1)
RECURSIVE LengthLoop(_, _, _)
LengthLoop(tokens, i, minimal_length) ==
    IF i > Len(tokens) THEN tokens
    ELSE IF Len(tokens[i]) < minimal_length
    THEN LengthLoop(Delete(tokens, i), i, minimal_length)
    ELSE LengthLoop(tokens, i + 1, minimal_length)

\* e is the string with its characters exchanged, or the exception
TokensOf(e, minimal_length) ==
    IF e.exc # "ok" THEN Raises(e.exc)
    ELSE Returns(LengthLoop(Split(e.val, <<" ">>), 1, minimal_length))

tokenize(string, minimal_length, mapping, include, no_capital) ==
    TokensOf(Exchanged(string, mapping, include, no_capital), minimal_length)

---------------------------------------------------------------------------
(* The calls of tokenize: strings of up to MaxTextLen characters, with the *)
(* default arguments, with include given, and with a mapping given.        *)

MaxTextLen == 4

\* mapping=('', '')
DefaultMapping == << <<>>, <<>> >>

\* minimal_length=3
DefaultMinimalLength == 3

TextAlphabet == {"a", "b", "C", " ", "1"}

Texts == UNION {[1..n -> TextAlphabet] : n \in 0..MaxTextLen}

TokenizeArguments ==
    {[minimal_length |-> DefaultMinimalLength, mapping |-> DefaultMapping,
      include |-> <<>>, no_capital |-> PyTrue],
     [minimal_length |-> 2, mapping |-> DefaultMapping,
      include |-> <<"1">>, no_capital |-> PyTrue],
     [minimal_length |-> 2, mapping |-> << << <<"i">>, <<"1">> >> >>,
      include |-> <<>>, no_capital |-> PyFalse],
     [minimal_length |-> 1, mapping |-> <<>>,
      include |-> <<"1">>, no_capital |-> PyNone]}

TokenizeCalls ==
    {[string |-> t, minimal_length |-> a.minimal_length, mapping |-> a.mapping,
      include |-> a.include, no_capital |-> a.no_capital] :
        t \in Texts, a \in TokenizeArguments}

InitTokenize ==
    /\ pc = "idle"
    /\ call \in TokenizeCalls
    /\ psl = DefaultList
    /\ ret = None

Tokenize ==
    /\ pc = "idle"
    /\ pc' = "tokenize"
    /\ ret' = tokenize(call.string, call.minimal_length, call.mapping, call.include,
                       call.no_capital)
    /\ UNCHANGED <<call, psl>>

NextTokenize == Tokenize

SpecTokenize == InitTokenize /\ [][NextTokenize]_vars

---------------------------------------------------------------------------
\* tokenize was called with the default mapping and no_capital
DefaultCall ==
    pc = "tokenize" /\ call.mapping = DefaultMapping /\ call.no_capital = PyTrue

\* a character of a token: a letter, or a character of include
TokenChar(c) == IsAlpha(c) \/ c \in Chars(call.include)

\* the maximal runs of token characters of text, lower-cased
RECURSIVE Runs(_, _)
Runs(text, run) ==
    IF text = <<>> THEN (IF run = <<>> THEN <<>> ELSE <<run>>)
    ELSE IF TokenChar(Head(text)) THEN Runs(Tail(text), run \o <<LowerChar(Head(text))>>)
    ELSE (IF run = <<>> THEN <<>> ELSE <<run>>) \o Runs(Tail(text), <<>>)

LongEnough(t) == Len(t) >= call.minimal_length

(* C17: tokenize returns the maximal runs of letters of the string, lower- *)
(* cased and split at every other character, without the runs shorter     *)
(* than minimal_length; a character passed in include counts as a letter   *)
(* of a token.                                                             *)
C17_Tokenize ==
    DefaultCall =>
       /\ ret.exc = "ok"
       /\ ret.val = SelectSeq(Runs(call.string, <<>>), LongEnough)

\* where tokenize returns the tokens: a string of letters only
C17_WitnessLetters ==
    /\ DefaultCall /\ ret.exc = "ok"
    /\ call.string = <<"a", "b", "C", "a">>
    /\ ret.val = << <<"a", "b", "c", "a">> >>

---------------------------------------------------------------------------
\* the number of dots that end the text a
DotsAtEnd(a) ==
    CHOOSE k \in 0..Len(a) :
       /\ \A m \in 1..k : a[Len(a) + 1 - m] = "."
       /\ (k = Len(a) \/ a[Len(a) - k] # ".")

\* a without the last n characters
ButLast(a, n) == SubSeq(a, 1, Len(a) - n)

\* the number of dots that are moved from an authority that ends in k dots
MovedDots(k) == IF k < 2 THEN k ELSE 2

\* a host whose labels have 63 characters at most
ShortLabels(h) == \A l \in {Split(h, <<".">>)[k] : k \in 1..Len(Split(h, <<".">>))} : Len(l) <= 63

\* the call has a well-formed host, followed by dots only, and its
\* authority is not longer than an authority may be
HostAndDots ==
    /\ Len(call.authority) <= MaxAuthorityLen
    /\ WellFormedHost(ButLast(call.authority, DotsAtEnd(call.authority)))
    /\ ShortLabels(ButLast(call.authority, DotsAtEnd(call.authority)))

\* the text of a part, empty when the part is absent
TextOf(x) == IF x = None THEN <<>> ELSE x

(* C18: for an authority that ends in k >= 1 dots, parse_url removes        *)
(* min(k,2) dots from the end of the authority and puts as many dots in    *)
(* front of the path, whether the path was empty or not; the rest of the   *)
(* authority and of the path is unchanged, and an authority that does not  *)
(* end in a dot is left as it is (the case of the letters of the host      *)
(* aside).                                                                 *)
C18_TrailingDots ==
    (Parsed /\ HostAndDots) =>
       /\ ret.exc = "ok"
       /\ Lower(TextOf(ret.tokens[2]))
             = Lower(ButLast(call.authority, MovedDots(DotsAtEnd(call.authority))))
       /\ TextOf(ret.tokens[3])
             = Rep(<<".">>, MovedDots(DotsAtEnd(call.authority))) \o call.path

\* where the dots are moved: three dots end the authority, two of them are
\* put in front of the path
C18_WitnessMoved ==
    /\ Parsed /\ ret.exc = "ok"
    /\ call.authority = <<"a", ".", "c", "o", ".", ".", ".">>
    /\ ret.tokens[2] = <<"a", ".", "c", "o", ".">>
    /\ ret.tokens[3] = <<".", ".", "/", "p">>

---------------------------------------------------------------------------
\* one of the two detectors has been called
Detected == pc = "rdn_in_sd" \/ pc = "rdn_in_path"

\* a suffix of the list matches in the text the detector was called on
SuffixMatched ==
    \/ pc = "rdn_in_sd" /\ ret.self.sd # None /\ SdMatches(ret.self.sd) # {}
    \/ pc = "rdn_in_path" /\ ret.self.path # None /\ Matching(ret.self.path) # {}

(* C21: rdn_in_sd and rdn_in_path each return either no domain or a text   *)
(* of the form label + "." + tld, tld being an entry of the list; when a   *)
(* suffix matches but the label is rejected, the detector returns no       *)
(* domain and does not end in an error.                                    *)
C21_DetectorOutcome ==
    Detected =>
       /\ ret.exc = "ok"
       /\ ret.val = None \/ \E S \in Entries : LabelAnd(ret.val, S)

\* where a suffix matches and the detector ends in an error
C21_WitnessAborted == Detected /\ SuffixMatched /\ ret.exc = "TypeError"

===========================================================================
